---------------------------- MODULE Spec2Model ----------------------------
(***************************************************************************)
(* A model of general/scans/scans.py: the scan combinator algebra          *)
(* (SimpleScan, ContinuousScan, SumScan, ProductScan, ParallelScan,        *)
(* ForeverScan, ForeverContinuousScan, ReplayScan with +, *, &, map,       *)
(* reverse, forever, and_back, len and calculate) and the execution        *)
(* engine (Scan.plot, ProductScan.plot, ContinuousScan.plot,               *)
(* ReplayScan.plot and Scan.fit).                                          *)
(*                                                                         *)
(* Coordinates are integers in units of 0.001 (so 0.005 is 5).             *)
(***************************************************************************)
EXTENDS Integers, Sequences, FiniteSets, TLC

VARIABLES
    \* ---- scan algebra (a script building scans with combinators) ----
    cur,        \* the scan the script currently holds
    res,        \* the last combinator call: [op, left, right, out]
    motionTol,  \* motion.tolerance of the axis handed to ContinuousScan
    \* ---- execution engine (one call of plot) ----
    kind,       \* which plot runs: "discrete", "product", "continuous"
    logDir,     \* the directory of the log file: "exists", "missing"
    runstate,   \* g.get_runstate()
    prompts,    \* how often get_input was called
    scan,       \* the scan being run (self)
    pc,         \* position of the engine inside plot
    step,       \* number of items pulled from iter(self) so far
    item,       \* the loop variable (x / move)
    position,   \* the coordinate of this step (position / y of plot)
    answer,     \* what the operator answered to the prompt
    sess,       \* the Detector's scoped session: "unopened", "open", "closed"
    nopen,      \* how often the Detector session was entered
    logfile,    \* the log file: "unopened", "open", "closed"
    log,        \* the lines written to the log file
    xs,         \* xs of plot
    ys,         \* ys of plot (ProductScan.plot: the outer coordinates)
    values,     \* ProductScan.plot: the grid of accumulated values
    value,      \* the value acquired at this step
    hist,       \* every acquisition so far: [pos, val]
    actionKind, \* the action argument of plot: "none", "four", "default"
    calls,      \* every invocation of the action: [got, ret]
    remainder,  \* action_remainder
    outcome,    \* "running", "returned", "raised"
    failedAt,   \* the position of the engine when an exception was raised
    error,      \* the exception plot raised
    motions,    \* number of commands the run has given to an axis
    fitArg,     \* the argument of fit: "Fit", "other"; "none" when plot is called
    fitOut,     \* how fit ended: "TypeError", "RuntimeError", "result"
    \* ---- the axis of a continuous scan ----
    axisPos,    \* motion(): the live position
    axisTarget, \* the last commanded target
    velocity,   \* motion.velocity
    oldSpeed,   \* old_speed of temporarily_change_motor_speed
    v0,         \* motion.velocity when plot was called
    tol         \* motion.tolerance of the axis of the run

algVars == <<cur, res, motionTol>>
runVars == <<kind, logDir, runstate, prompts, answer, scan, pc, step, item, position,
             sess, nopen,
             logfile, log, xs, ys, values, value, hist, actionKind, calls,
             remainder, outcome, failedAt, error, motions, fitArg, fitOut>>
axisVars == <<axisPos, axisTarget, velocity, oldSpeed, v0, tol>>
vars == <<algVars, runVars, axisVars>>

-----------------------------------------------------------------------------
(* Bounds of the model *)

\* a scan built by the script has at most this many leaves
MaxLeaves == 2

\* a run pulls at most this many items from its scan
MaxSteps == 6

\* a continuous run takes at most this many samples
MaxSamples == 2

\* an iterator is asked for at most this many items
MaxPulls == 5

-----------------------------------------------------------------------------
(* Sequences *)

\* a reverse that only moves the first value to the end
Rev_rotate(s) == IF s = <<>> THEN <<>> ELSE Append(Tail(s), Head(s))

RECURSIVE Rev(_)
Rev(s) == IF s = <<>> THEN <<>> ELSE Append(Rev(Tail(s)), Head(s))

Min2(a, b) == IF a <= b THEN a ELSE b

Abs(x) == IF x < 0 THEN -x ELSE x

IndexOf(s, e) == CHOOSE i \in 1..Len(s) : s[i] = e /\ \A j \in 1..(i-1) : s[j] # e

InSeq(s, e) == \E i \in 1..Len(s) : s[i] = e

-----------------------------------------------------------------------------
(* Positions: an OrderedDict from axis to coordinate *)

Position(axis, v) == [keys |-> <<axis>>, vals |-> <<v>>]

IsMove(x) == "start" \in DOMAIN x

RECURSIVE dict_update(_, _, _)
dict_update(x, ks, vs) ==
    IF ks = <<>> THEN x
    ELSE LET k == Head(ks)
             v == Head(vs)
             x1 == IF InSeq(x.keys, k)
                   THEN [x EXCEPT !.vals[IndexOf(x.keys, k)] = v]
                   ELSE [keys |-> Append(x.keys, k), vals |-> Append(x.vals, v)]
         IN dict_update(x1, Tail(ks), Tail(vs))

\* merge_dicts of two positions: a copy of x updated with y
merge_dicts(x, y) == dict_update(x, y.keys, y.vals)

\* merge_dicts raises when x or y is a ContinuousMove (no copy(), no keys)
merge_raises(x, y) == IsMove(x) \/ IsMove(y)

-----------------------------------------------------------------------------
(* Scan descriptors.  A scan is a record tagged with its class.  A         *)
(* combinator call that raises returns a record tagged "ValueError"; one   *)
(* that never returns is tagged "Diverges".                                *)

\* the literal 0.005 compared against in ContinuousScan.__init__
HardTol == 5

ValueError(msg) == [kind |-> "ValueError", msg |-> msg]

Diverges == [kind |-> "Diverges"]

TypeError(msg) == [kind |-> "TypeError", msg |-> msg]

IsScan(s) == s.kind \notin {"ValueError", "TypeError", "Diverges", "None"}

IsContinuous(s) == s.kind \in {"ContinuousScan", "ForeverContinuousScan"}

\* the Defaults object of the instrument, which scripts hand to the scans
\* they construct
InstrumentDefaults == "Defaults"

\* SimpleScan(action, values, defaults); name is action.title
SimpleScan_init(name, vals, defaults) ==
    [kind |-> "SimpleScan", name |-> name, values |-> vals, defaults |-> defaults]

SimpleScan(name, vals) == SimpleScan_init(name, vals, InstrumentDefaults)

ContinuousMove(start, stop, speed) == [start |-> start, stop |-> stop, speed |-> speed]

\* the check of ContinuousScan.__init__ on one move
MoveRejected(move) == Abs(move.start - move.stop) <= HardTol

ContinuousScan(moves) ==
    IF \E i \in 1..Len(moves) : MoveRejected(moves[i])
    THEN ValueError("Cannot have start={} and stop={} within motor tolerance of each other (tol={})")
    ELSE [kind |-> "ContinuousScan", moves |-> moves]

\* ForeverContinuousScan inherits ContinuousScan.__init__
ForeverContinuousScan(moves) ==
    IF \E i \in 1..Len(moves) : MoveRejected(moves[i])
    THEN ValueError("Cannot have start={} and stop={} within motor tolerance of each other (tol={})")
    ELSE [kind |-> "ForeverContinuousScan", moves |-> moves]

SumScan(first, second) == [kind |-> "SumScan", first |-> first, second |-> second]

ProductScan(outer, inner) == [kind |-> "ProductScan", outer |-> outer, inner |-> inner]

ParallelScan(first, second) == [kind |-> "ParallelScan", first |-> first, second |-> second]

ForeverScan(s) == [kind |-> "ForeverScan", scan |-> s]

\* ReplayScan(xs, ys, axis, result, defaults): recorded coordinates and values
ReplayScan(rxs, rys, axis) == [kind |-> "ReplayScan", xs |-> rxs, ys |-> rys, axis |-> axis]

\* a + b: Python calls type(a).__add__(a, b)
ContinuousScan_add(self, other) ==
    IF ~ (other.kind = self.kind \/ other.kind = "ForeverContinuousScan")
    THEN ValueError("Adding a continuous and non-continuous scan together is not supported.")
    ELSE ContinuousScan(self.moves \o other.moves)

Scan_add(self, x) == SumScan(self, x)

Add(a, b) == IF IsContinuous(a) THEN ContinuousScan_add(a, b) ELSE Scan_add(a, b)

\* a * b: Python calls type(a).__mul__(a, b)
ContinuousScan_mul(self, other) == ValueError("Products of continuous scans are not supported.")

Scan_mul(self, x) == ProductScan(self, x)

Mul(a, b) == IF IsContinuous(a) THEN ContinuousScan_mul(a, b) ELSE Scan_mul(a, b)

\* a & b: Python calls type(a).__and__(a, b)
ContinuousScan_and(self, other) ==
    ValueError("Executing continuous scans in parallel is not supported.")

Scan_and(self, x) == ParallelScan(self, x)

And(a, b) == IF IsContinuous(a) THEN ContinuousScan_and(a, b) ELSE Scan_and(a, b)

RECURSIVE SwapMoves(_)
SwapMoves(moves) ==
    IF moves = <<>> THEN <<>>
    ELSE <<ContinuousMove(Head(moves).stop, Head(moves).start, Head(moves).speed)>>
         \o SwapMoves(Tail(moves))

\* the reverse property of every class; the list comprehension of
\* ContinuousScan.reverse iterates self, which never ends for a
\* ForeverContinuousScan
RECURSIVE Reverse(_)
Reverse(s) ==
    CASE s.kind = "SimpleScan" -> SimpleScan_init(s.name, Rev(s.values), s.defaults)
      [] s.kind = "ContinuousScan" -> ContinuousScan(Rev(SwapMoves(s.moves)))
      [] s.kind = "ForeverContinuousScan" -> Diverges
      [] s.kind = "SumScan" ->
            LET r2 == Reverse(s.second)
                r1 == Reverse(s.first)
            IN IF ~IsScan(r2) THEN r2 ELSE IF ~IsScan(r1) THEN r1 ELSE SumScan(r2, r1)
      [] s.kind = "ProductScan" ->
            LET r1 == Reverse(s.outer)
                r2 == Reverse(s.inner)
            IN IF ~IsScan(r1) THEN r1 ELSE IF ~IsScan(r2) THEN r2 ELSE ProductScan(r1, r2)
      [] s.kind = "ParallelScan" ->
            LET r1 == Reverse(s.first)
                r2 == Reverse(s.second)
            IN IF ~IsScan(r1) THEN r1 ELSE IF ~IsScan(r2) THEN r2 ELSE ParallelScan(r1, r2)
      [] s.kind = "ForeverScan" ->
            LET r == Reverse(s.scan)
            IN IF ~IsScan(r) THEN r ELSE ForeverScan(r)
      [] s.kind = "ReplayScan" -> ReplayScan(Rev(s.xs), Rev(s.ys), s.axis)

\* the forever property
Forever(s) == IF IsContinuous(s) THEN ForeverContinuousScan(s.moves) ELSE ForeverScan(s)

\* the and_back property: self + self.reverse
AndBack(s) == LET r == Reverse(s) IN IF ~IsScan(r) THEN r ELSE Add(s, r)

\* the functions a script hands to map
Funcs == {"negate", "double", "shift"}

Apply(f, v) ==
    CASE f = "negate" -> 0 - v
      [] f = "double" -> 2 * v
      [] f = "shift" -> v + 10

RECURSIVE MapSeq(_, _)
MapSeq(f, vals) ==
    IF vals = <<>> THEN <<>> ELSE <<Apply(f, Head(vals))>> \o MapSeq(f, Tail(vals))

\* a map that hands back the scan it was called on
SimpleScan_map_same(self, func) == self

\* SimpleScan.map: a SimpleScan of the same action over list(map(func, values))
\* SimpleScan(self.action, list(map(func, self.values)), self.name): the third
\* argument, the defaults of the new scan, is the name of the axis
SimpleScan_map(self, func) ==
    SimpleScan_init(self.name, MapSeq(func, self.values), self.name)

\* SimpleScan.min and SimpleScan.max: self.values.min() and self.values.max(),
\* which raise ValueError on an array of no values
SimpleScan_min(self) ==
    IF self.values = <<>> THEN ValueError("zero-size array")
    ELSE CHOOSE m \in {self.values[i] : i \in 1..Len(self.values)} :
            \A i \in 1..Len(self.values) : m <= self.values[i]

SimpleScan_max(self) ==
    IF self.values = <<>> THEN ValueError("zero-size array")
    ELSE CHOOSE m \in {self.values[i] : i \in 1..Len(self.values)} :
            \A i \in 1..Len(self.values) : m >= self.values[i]

\* the map method of every class
RECURSIVE Map(_, _)
Map(s, f) ==
    CASE s.kind = "SimpleScan" -> SimpleScan_map(s, f)
      [] IsContinuous(s) -> ValueError("Mapping a continuous scan is not yet supported.")
      [] s.kind = "SumScan" ->
            LET m1 == Map(s.first, f)
                m2 == Map(s.second, f)
            IN IF ~IsScan(m1) THEN m1 ELSE IF ~IsScan(m2) THEN m2 ELSE SumScan(m1, m2)
      [] s.kind = "ProductScan" ->
            LET m1 == Map(s.outer, f)
                m2 == Map(s.inner, f)
            IN IF ~IsScan(m1) THEN m1 ELSE IF ~IsScan(m2) THEN m2 ELSE ProductScan(m1, m2)
      [] s.kind = "ParallelScan" ->
            LET m1 == Map(s.first, f)
                m2 == Map(s.second, f)
            IN IF ~IsScan(m1) THEN m1 ELSE IF ~IsScan(m2) THEN m2 ELSE ParallelScan(m1, m2)
      [] s.kind = "ForeverScan" ->
            LET m1 == Map(s.scan, f)
            IN IF ~IsScan(m1) THEN m1 ELSE ForeverScan(m1)
      [] s.kind = "ReplayScan" -> ReplayScan(MapSeq(f, s.xs), s.ys, s.axis)

\* __len__; LenError stands for the exception of the Forever variants
LenError == -1

RECURSIVE ScanLen(_)
ScanLen(s) ==
    CASE s.kind = "SimpleScan" -> Len(s.values)
      [] s.kind = "ContinuousScan" -> Len(s.moves)
      [] s.kind = "ForeverContinuousScan" -> LenError
      [] s.kind = "ForeverScan" -> LenError
      [] s.kind = "SumScan" ->
            LET a == ScanLen(s.first)
                b == ScanLen(s.second)
            IN IF a = LenError \/ b = LenError THEN LenError ELSE a + b
      [] s.kind = "ProductScan" ->
            LET a == ScanLen(s.outer)
                b == ScanLen(s.inner)
            IN IF a = LenError \/ b = LenError THEN LenError ELSE a * b
      [] s.kind = "ParallelScan" ->
            LET a == ScanLen(s.first)
                b == ScanLen(s.second)
            IN IF a = LenError \/ b = LenError THEN LenError ELSE Min2(a, b)
      [] s.kind = "ReplayScan" -> Min2(Len(s.xs), Len(s.ys))

\* calculate(pad=pad, seconds=seconds): len(self) * (pad + estimate(...)),
\* the exception of len(self) when it raises
calculate(s, pad, seconds) ==
    IF ScanLen(s) = LenError THEN LenError ELSE ScanLen(s) * (pad + seconds)

\* self.defaults: what the constructor was given (Simple; Continuous, Replay
\* and their Forever forms, which are always given the instrument's), and
\* for the composites the defaults of first, outer or scan
RECURSIVE DefaultsOf(_)
DefaultsOf(s) ==
    CASE s.kind = "SimpleScan" -> s.defaults
      [] s.kind \in {"SumScan", "ParallelScan"} -> DefaultsOf(s.first)
      [] s.kind = "ProductScan" -> DefaultsOf(s.outer)
      [] s.kind = "ForeverScan" -> DefaultsOf(s.scan)
      [] OTHER -> InstrumentDefaults

-----------------------------------------------------------------------------
(* Iteration.  Take(s, n) is what pulling n items from iter(s) gives: the  *)
(* items it yields, at most n, and, when they are fewer than n, how the    *)
(* iterator ends after them: "stop" (exhausted), "error" (it raised) or    *)
(* "more" (it neither yields nor ends: ForeverScan over an empty scan).    *)

Yield(items, end) == [items |-> items, end |-> end]

RECURSIVE SimplePositions(_, _)
SimplePositions(name, vals) ==
    IF vals = <<>> THEN <<>>
    ELSE <<Position(name, Head(vals))>> \o SimplePositions(name, Tail(vals))

Prefix(items, n) == IF Len(items) > n THEN Yield(SubSeq(items, 1, n), "more")
                    ELSE Yield(items, "stop")

\* for x in items: yield x, without the enclosing while True
Cycle_once(items, n) == Prefix(items, n)

\* while True: for x in items: yield x
Cycle(items, n) == Yield([i \in 1..(IF items = <<>> THEN 0 ELSE n) |->
                            items[((i - 1) % Len(items)) + 1]], "more")

\* the inner loop of ProductScan.__iter__ for one outer item i
RECURSIVE MergeEach(_, _)
MergeEach(i, js) ==
    IF js = <<>> THEN Yield(<<>>, "stop")
    ELSE IF merge_raises(i, Head(js)) THEN Yield(<<>>, "error")
    ELSE LET rest == MergeEach(i, Tail(js))
         IN Yield(<<merge_dicts(i, Head(js))>> \o rest.items, rest.end)

\* zip of ParallelScan.__iter__ over the first k items of both
RECURSIVE MergeZip(_, _, _)
MergeZip(as, bs, k) ==
    IF k = 0 THEN Yield(<<>>, "stop")
    ELSE IF merge_raises(Head(as), Head(bs)) THEN Yield(<<>>, "error")
    ELSE LET rest == MergeZip(Tail(as), Tail(bs), k - 1)
         IN Yield(<<merge_dicts(Head(as), Head(bs))>> \o rest.items, rest.end)

RECURSIVE Take(_, _)
RECURSIVE ProductRows(_, _, _, _)

\* ProductScan.__iter__ from the outer items os on, with n items still wanted;
\* a row of no item (an empty inner scan) makes the loop pull the next outer
\* item, so a finite outer scan is handed over whole
ProductRows(os, oend, inner, n) ==
    IF os = <<>> THEN Yield(<<>>, oend)
    ELSE LET ti == Take(inner, n)
             m == MergeEach(Head(os), ti.items)
             row == IF m.end = "error" THEN m ELSE Yield(m.items, ti.end)
         IN IF row.end # "stop" THEN row
            ELSE LET rest == ProductRows(Tail(os), oend, inner, n - Len(row.items))
                 IN Yield(row.items \o rest.items, rest.end)

Take(s, n) ==
    CASE s.kind = "SimpleScan" -> Prefix(SimplePositions(s.name, s.values), n)
      [] s.kind = "ContinuousScan" -> Prefix(s.moves, n)
      [] s.kind = "ReplayScan" ->
            Prefix(SimplePositions(s.axis, SubSeq(s.xs, 1, Min2(Len(s.xs), Len(s.ys)))), n)
      [] s.kind = "ForeverContinuousScan" -> Cycle(s.moves, n)
      [] s.kind = "ForeverScan" ->
            LET t == Take(s.scan, n)
            IN IF t.end = "stop" THEN Cycle(t.items, n) ELSE t
      [] s.kind = "SumScan" ->
            LET t1 == Take(s.first, n)
            IN IF t1.end # "stop" THEN t1
               ELSE LET t2 == Take(s.second, n - Len(t1.items))
                    IN Yield(t1.items \o t2.items, t2.end)
      [] s.kind = "ProductScan" ->
            LET to == IF ScanLen(s.outer) = LenError THEN Take(s.outer, n)
                      ELSE Take(s.outer, 1000000)
            IN ProductRows(to.items, to.end, s.inner, n)
      [] s.kind = "ParallelScan" ->
            LET t1 == Take(s.first, n)
                t2 == Take(s.second, n)
                k == Min2(Len(t1.items), Len(t2.items))
                m == MergeZip(t1.items, t2.items, k)
            IN IF m.end = "error" THEN m
               ELSE Yield(m.items, IF Len(t1.items) = k THEN t1.end ELSE t2.end)

\* size of a scan: its number of leaves, a continuous scan of k moves
\* counting as k leaves
RECURSIVE NLeaves(_)
NLeaves(s) ==
    CASE s.kind \in {"SumScan", "ParallelScan"} -> NLeaves(s.first) + NLeaves(s.second)
      [] s.kind = "ProductScan" -> NLeaves(s.outer) + NLeaves(s.inner)
      [] s.kind = "ForeverScan" -> NLeaves(s.scan)
      [] s.kind \in {"ContinuousScan", "ForeverContinuousScan"} ->
            IF Len(s.moves) <= 1 THEN 1 ELSE Len(s.moves)
      [] OTHER -> 1

\* every item of a finite scan: list(s)
Items(s) == Take(s, 1000000)

\* Commands(s, k): the calls self.action(i) that k calls of next() on iter(s)
\* make, in order, as <<axis, value>>.  A generator runs to its next yield:
\* the call of next() that finds an operand exhausted has already run the
\* other operand of a zip, or goes on to the next operand of a sum, within
\* the same call.
RECURSIVE Commands(_, _)
RECURSIVE ZipCommands(_, _, _, _, _)
RECURSIVE RowCommands(_, _, _, _)
RECURSIVE Repeat(_, _)

Repeat(seq, q) == IF q = 0 THEN <<>> ELSE seq \o Repeat(seq, q - 1)

\* the commands of the r-th call of next() on iter(s)
Pull(s, r) ==
    LET upto == Commands(s, r)
    IN SubSeq(upto, Len(Commands(s, r - 1)) + 1, Len(upto))

\* rounds r..rounds of zip(first, second): next(first), then, when first gave
\* an item (r <= la), next(second)
ZipCommands(first, second, r, rounds, la) ==
    IF r > rounds THEN <<>>
    ELSE Pull(first, r) \o (IF r <= la THEN Pull(second, r) ELSE <<>>)
         \o ZipCommands(first, second, r + 1, rounds, la)

\* ProductScan.__iter__ from the r-th outer item on, k calls of next() left:
\* the outer item is pulled, then the inner scan iterated anew
RowCommands(outer, inner, r, k) ==
    LET no == Len(Take(outer, r).items)
        ni == Len(Take(inner, k).items)
    IN IF no < r THEN Pull(outer, r)
       ELSE IF ni >= k THEN Pull(outer, r) \o Commands(inner, k)
       ELSE Pull(outer, r) \o Commands(inner, ni + 1)
            \o RowCommands(outer, inner, r + 1, k - ni)

Commands(s, k) ==
    IF k <= 0 THEN <<>>
    ELSE
    CASE s.kind = "SimpleScan" ->
            [i \in 1..Min2(k, Len(s.values)) |-> <<s.name, s.values[i]>>]
      [] s.kind = "SumScan" ->
            LET t1 == Take(s.first, k)
                n1 == Len(t1.items)
            IN IF n1 >= k THEN Commands(s.first, k)
               ELSE Commands(s.first, n1 + 1)
                    \o (IF t1.end = "stop" THEN Commands(s.second, k - n1) ELSE <<>>)
      [] s.kind = "ParallelScan" ->
            LET rounds == Min2(k, Len(Take(s, k).items) + 1)
            IN ZipCommands(s.first, s.second, 1, rounds,
                           Len(Take(s.first, rounds).items))
      [] s.kind = "ProductScan" ->
            RowCommands(s.outer, s.inner, 1, Min2(k, Len(Take(s, k).items) + 1))
      [] s.kind = "ForeverScan" ->
            LET t == Take(s.scan, k)
                n == Len(t.items)
            IN IF t.end = "stop" /\ n > 0
               THEN Repeat(Commands(s.scan, n + 1), (k - 1) \div n)
                    \o Commands(s.scan, k - ((k - 1) \div n) * n)
               ELSE Commands(s.scan, k)
      [] OTHER -> <<>>

\* for x in s: pass
AllCommands(s) == Commands(s, Len(Items(s).items) + 1)

-----------------------------------------------------------------------------
(* A script that builds scans with the combinators *)

NoScan == [kind |-> "None"]

theta == "theta"

phi == "phi"

SimpleLeaves == { SimpleScan(theta, <<>>),
                  SimpleScan(theta, <<0, 1>>),
                  SimpleScan(theta, <<0, 1, 2>>),
                  SimpleScan(phi, <<5, 6>>) }

ContinuousLeaves == { ContinuousScan(<<ContinuousMove(0, 20, 2)>>),
                      ContinuousScan(<<ContinuousMove(0, 20, 2), ContinuousMove(20, 8, 4)>>) }

Leaves == SimpleLeaves \cup ContinuousLeaves

\* the move lists a script hands to ContinuousScan(motion, moves, defaults)
MoveLists == { <<>>,
               <<ContinuousMove(0, 3, 2)>>,
               <<ContinuousMove(0, 5, 2)>>,
               <<ContinuousMove(0, 8, 2)>>,
               <<ContinuousMove(8, 0, 2)>>,
               <<ContinuousMove(0, 20, 2), ContinuousMove(20, 17, 2)>>,
               <<ContinuousMove(0, 20, 2), ContinuousMove(20, 0, 4)>> }

\* motion.tolerance of the axes the scripts use
Tolerances == {5, 10}

RECURSIVE HasForever(_)
HasForever(s) ==
    CASE s.kind \in {"SumScan", "ParallelScan"} -> HasForever(s.first) \/ HasForever(s.second)
      [] s.kind = "ProductScan" -> HasForever(s.outer) \/ HasForever(s.inner)
      [] s.kind \in {"ForeverScan", "ForeverContinuousScan"} -> TRUE
      [] OTHER -> FALSE

\* a reverse that turns the list of its operand round in place
operands_after_in_place(op, left, right) ==
    [left |-> IF op = "reverse" /\ left.kind = "SimpleScan"
              THEN SimpleScan_init(left.name, Rev(left.values), left.defaults) ELSE left,
     right |-> right]

\* the operands of a combinator as they are after the call: no combinator
\* assigns to an attribute of an operand, and every list a result holds is
\* a new one (values[::-1], list(map(...)), self.moves + other.moves)
operands_after(op, left, right) == [left |-> left, right |-> right]

Call(op, left, right, out) ==
    [op |-> op, left |-> left, right |-> right, out |-> out,
     kept |-> operands_after(op, left, right)]

\* the script keeps the scan a combinator returned
Bind(call) ==
    /\ res' = call
    /\ cur' = IF IsScan(call.out) THEN call.out ELSE cur
    /\ UNCHANGED <<motionTol, runVars, axisVars>>

AlgConstruct ==
    /\ res.op = "init"
    /\ \E moves \in MoveLists :
        Bind(Call("ContinuousScan", [kind |-> "Moves", moves |-> moves], NoScan,
                  ContinuousScan(moves)))

AlgAdd ==
    /\ \E x \in Leaves :
          /\ NLeaves(cur) + NLeaves(x) <= MaxLeaves
          /\ \/ Bind(Call("add", cur, x, Add(cur, x)))
             \/ Bind(Call("add", x, cur, Add(x, cur)))

AlgMul ==
    /\ \E x \in Leaves :
          /\ NLeaves(cur) + NLeaves(x) <= MaxLeaves
          /\ \/ Bind(Call("mul", cur, x, Mul(cur, x)))
             \/ Bind(Call("mul", x, cur, Mul(x, cur)))

AlgAnd ==
    /\ \E x \in Leaves :
          /\ NLeaves(cur) + NLeaves(x) <= MaxLeaves
          /\ \/ Bind(Call("and", cur, x, And(cur, x)))
             \/ Bind(Call("and", x, cur, And(x, cur)))

AlgReverse == Bind(Call("reverse", cur, NoScan, Reverse(cur)))

AlgForever ==
    /\ ~HasForever(cur)
    /\ Bind(Call("forever", cur, NoScan, Forever(cur)))

\* the script builds further on the round trip only while it is small
AlgAndBack ==
    LET out == AndBack(cur)
    IN /\ res' = Call("and_back", cur, NoScan, out)
       /\ cur' = IF IsScan(out) /\ NLeaves(out) <= MaxLeaves THEN out ELSE cur
       /\ UNCHANGED <<motionTol, runVars, axisVars>>

\* t = s.map(f), of a scan that is not of the largest size: the script
\* goes on with s
AlgMap ==
    /\ NLeaves(cur) < MaxLeaves
    /\ \E f \in Funcs :
          /\ res' = Call("map", cur, [kind |-> "Func", name |-> f], Map(cur, f))
          /\ UNCHANGED <<cur, motionTol, runVars, axisVars>>

\* the engine is not running while the script builds scans
RunIdle ==
    /\ kind = "none" /\ logDir = "exists" /\ runstate = "SETUP" /\ prompts = 0
    /\ answer = "none" /\ position = 0
    /\ scan = NoScan /\ pc = "idle" /\ step = 0 /\ item = NoScan
    /\ sess = "unopened" /\ nopen = 0 /\ logfile = "unopened" /\ log = <<>>
    /\ xs = <<>> /\ ys = <<>> /\ values = <<>> /\ value = 0 /\ hist = <<>>
    /\ actionKind = "none" /\ calls = <<>> /\ remainder = 0 /\ outcome = "idle"
    /\ failedAt = "none" /\ error = "none" /\ motions = 0
    /\ fitArg = "none" /\ fitOut = "none"

AxisIdle ==
    /\ axisPos = 0 /\ axisTarget = 0 /\ velocity = 0 /\ oldSpeed = 0 /\ v0 = 0 /\ tol = 0

AlgInit ==
    /\ cur \in Leaves
    /\ res = Call("init", NoScan, NoScan, cur)
    /\ motionTol \in Tolerances
    /\ RunIdle
    /\ AxisIdle

AlgNext ==
    \/ AlgConstruct \/ AlgAdd \/ AlgMul \/ AlgAnd \/ AlgReverse \/ AlgForever \/ AlgAndBack
    \/ AlgMap

AlgSpec == AlgInit /\ [][AlgNext]_vars

-----------------------------------------------------------------------------
(* estimate(seconds, minutes, hours, uamps, frames)                         *)

\* a keyword the caller did not pass: the default None of estimate
Unspecified == -1

\* the truth value Python gives an argument: None and 0 are false
Truthy(x) == x # Unspecified /\ x # 0

\* estimate: frames / 10.0 is exact on the frame counts used here, which are
\* multiples of 10
estimate(seconds, minutes, hours, uamps, frames) ==
    LET num(x) == IF ~Truthy(x) THEN 0 ELSE x
    IN IF Truthy(seconds) \/ Truthy(minutes) \/ Truthy(hours)
       THEN num(seconds) + 60 * num(minutes) + 3600 * num(hours)
       ELSE IF Truthy(frames) THEN frames \div 10
       ELSE IF Truthy(uamps) THEN 90 * uamps
       ELSE 0

\* the measurement specifications a script asks an estimate of
Durations == {Unspecified, 0, 5}

Charges == {Unspecified, 0, 2}

Frames == {Unspecified, 0, 20}

\* e = estimate(seconds=.., minutes=.., hours=.., uamps=.., frames=..)
EstEstimate ==
    /\ \E seconds \in Durations, minutes \in Durations, hours \in Durations,
          uamps \in Charges, frames \in Frames :
          res' = Call("estimate",
                      [kind |-> "Kwargs", seconds |-> seconds, minutes |-> minutes,
                       hours |-> hours, uamps |-> uamps, frames |-> frames],
                      NoScan,
                      [kind |-> "Number",
                       value |-> estimate(seconds, minutes, hours, uamps, frames)])
    /\ UNCHANGED <<cur, motionTol, runVars, axisVars>>

EstInit ==
    /\ cur = NoScan
    /\ res = Call("init", NoScan, NoScan, NoScan)
    /\ motionTol \in Tolerances
    /\ RunIdle
    /\ AxisIdle

EstNext == EstEstimate

EstSpec == EstInit /\ [][EstNext]_vars

-----------------------------------------------------------------------------
(* LoqSampleChanger.scan (instrument/loq/sample_changer_scan.py).  Lengths  *)
(* are in thousandths, as HardTol is; an argument is <<>> when it is None   *)
(* and <<v>> when it has the value v.                                      *)

MaxIterations == 2

\* for _ in range(iterations): result += ContinuousScan(motion,
\* [ContinuousMove(start, stop, speed)], self).and_back
RECURSIVE LoqLoop(_, _, _, _, _)
LoqLoop(result, start, stop, speed, n) ==
    IF n <= 0 THEN result
    ELSE LET one == ContinuousScan(<<ContinuousMove(start, stop, speed)>>)
             back == IF IsScan(one) THEN AndBack(one) ELSE one
         IN IF ~IsScan(back) THEN back
            ELSE LET sum == Add(result, back)
                 IN IF ~IsScan(sum) THEN sum
                    ELSE LoqLoop(sum, start, stop, speed, n - 1)

\* the sizes and times used here are even and divide exactly
LoqSampleChanger_scan(centre, size, time, iterations) ==
    IF centre = <<>> THEN TypeError("Scan centre must be provided")
    ELSE IF size = <<>> \/ size[1] <= 0 THEN TypeError("Move size not provided or invalid")
    ELSE IF time = <<>> \/ time[1] <= 0 THEN TypeError("Scan time not provided or invalid")
    ELSE LET time_single_direction == time[1] \div 2
             speed == size[1] \div time_single_direction
             start == centre[1] + size[1] \div 2
             stop == centre[1] - size[1] \div 2
         IN LoqLoop(ContinuousScan(<<>>), start, stop, speed, iterations)

Centres == {<<>>, <<0>>, <<100>>}

Sizes == {<<>>, <<-8>>, <<0>>, <<4>>, <<8>>, <<20>>}

Times == {<<>>, <<-2>>, <<0>>, <<2>>, <<4>>}

\* s = scan(axis, centre, size, time, iterations=n)
LoqScan ==
    /\ \E centre \in Centres, size \in Sizes, time \in Times, n \in 0..MaxIterations :
          res' = Call("loq_scan",
                      [kind |-> "Kwargs", centre |-> centre, size |-> size,
                       time |-> time, iterations |-> n],
                      NoScan,
                      LoqSampleChanger_scan(centre, size, time, n))
    /\ UNCHANGED <<cur, motionTol, runVars, axisVars>>

LoqInit ==
    /\ cur = NoScan
    /\ res = Call("init", NoScan, NoScan, NoScan)
    /\ motionTol \in Tolerances
    /\ RunIdle
    /\ AxisIdle

LoqNext == LoqScan

LoqSpec == LoqInit /\ [][LoqNext]_vars

-----------------------------------------------------------------------------
(* Monoids (general/scans/monoid.py): Average keeps the count, the sum and *)
(* the sum of squares of its samples.                                      *)

Average(v) == [count |-> 1, total |-> v, sq |-> v * v]

\* Average.combine: a += b
Combine(a, b) == [count |-> a.count + b.count, total |-> a.total + b.total,
                  sq |-> a.sq + b.sq]

\* str(m): the mean total/count, as the fraction <<total, count>>
MeanOf(m) == <<m.total, m.count>>

\* m.err(): the standard error, zero for fewer than 2 samples; given by its
\* square (count*sq - total^2) / (count^2 * (count-1)) as a fraction
ErrOf(m) == IF m.count < 2 THEN <<0, 1>>
            ELSE <<m.count * m.sq - m.total * m.total,
                   m.count * m.count * (m.count - 1)>>

\* Exact(value): one value, never merged
Exact(v) == [count |-> 1, total |-> v, sq |-> v * v]

\* np.nan, what ProductScan.plot fills the grid with
NaN == [count |-> 0, total |-> 0, sq |-> 0]

IsMonoid(c) == c.count > 0

-----------------------------------------------------------------------------
(* The execution engine *)

\* None, as the remainder of an action
None == 0

\* what the Detector can return
DetValues == {10, 11}

\* the first (key, value) of a position: next(iter(x.items()))
FirstCoord(x) == x.vals[1]

\* a plot that appends at every step, also at a position seen before
find_or_append_always_appends(pxs, pys, p, v) ==
    [xs |-> Append(pxs, p), ys |-> Append(pys, v)]

\* lines 214-218 of Scan.plot: combine into the entry of a position seen
\* before, else append
find_or_append(pxs, pys, p, v) ==
    IF InSeq(pxs, p)
    THEN [xs |-> pxs,
          ys |-> [pys EXCEPT ![IndexOf(pxs, p)] = Combine(@, v)]]
    ELSE [xs |-> Append(pxs, p), ys |-> Append(pys, v)]

\* the header line Scan.plot writes while xs is empty
HeaderLine(x) == [line |-> "header", label |-> x.keys[1]]

\* lines 219-220 of Scan.plot: the line written after accumulating
DataLine(pxs, pys) ==
    [line |-> "data", coord |-> pxs[Len(pxs)], mean |-> MeanOf(pys[Len(pys)]),
     err |-> ErrOf(pys[Len(pys)])]

\* a plot that opens the session without a with block: nothing closes it
with_exit_leaks(s) == s

\* leaving a with block closes what it entered, on every path
with_exit(s) == IF s = "open" THEN "closed" ELSE s

\* temporarily_change_motor_speed without its finally clause
restore_speed_skipped(current, old_speed) == current

\* the finally clause of temporarily_change_motor_speed
restore_speed(current, old_speed) == old_speed

\* the positions of ContinuousScan.plot inside the block of
\* temporarily_change_motor_speed
SpeedScope == {"c_while", "c_read", "detect", "render", "action", "draw", "c_sleep"}

InSpeedScope == kind = "continuous" /\ pc \in SpeedScope

\* the positions of plot at which an exception or an interrupt can come
RaisePoints == {"start", "enter", "iter", "detect", "render", "action", "draw", "save",
                "c_start", "c_poll", "c_enter", "c_while", "c_read", "c_sleep"}

\* an exception propagating out of plot (raised by the Detector, the action,
\* the renderer or the iteration, or an interrupt): the scoped speed change
\* and the with block unwind, then plot raises
Unwind ==
    /\ velocity' = IF InSpeedScope THEN restore_speed(velocity, oldSpeed) ELSE velocity
    /\ sess' = with_exit(sess)
    /\ logfile' = with_exit(logfile)
    /\ failedAt' = pc
    /\ pc' = "done"
    /\ outcome' = "raised"

\* what a step leaves alone
Keep(unchanged) == UNCHANGED <<algVars, kind, logDir, runstate, scan, actionKind, fitArg,
                                 v0, tol>>
                   /\ UNCHANGED unchanged

\* an exception at the current position (Detector, action or renderer
\* failure, an interrupt at a suspension point)
Raise ==
    /\ outcome = "running" /\ pc \in RaisePoints
    /\ Unwind
    /\ error' = "Exception"
    /\ Keep(<<motions, fitOut, prompts, answer, step, item, position, nopen, log, xs, ys, values, value,
              hist, calls, remainder, axisPos, axisTarget, oldSpeed>>)

\* ---- Scan.plot ----

\* lines 195-199: the log directory is there; open the log file
DStartOpen ==
    /\ kind = "discrete" /\ pc = "start" /\ logDir = "exists"
    /\ logfile' = "open" /\ log' = <<>>
    /\ pc' = "enter"
    /\ Keep(<<motions, error, fitOut, prompts, answer, step, item, position, sess, nopen, xs, ys, values, value, hist, calls,
              remainder, outcome, failedAt, axisVars>>)

\* a prompt after which the answer "y" starts the scan in the new directory
DStartPrompt_then_runs ==
    /\ kind = "discrete" /\ pc = "start" /\ logDir = "missing"
    /\ prompts' = prompts + 1
    /\ \E a \in {"y", "n", "other"} :
          /\ answer' = a
          /\ logDir' = IF a = "y" THEN "exists" ELSE logDir
          /\ pc' = IF a = "y" THEN "start" ELSE "done"
          /\ outcome' = IF a = "y" THEN outcome ELSE "returned"
    /\ UNCHANGED <<algVars, kind, runstate, scan, actionKind, axisVars>>
    /\ UNCHANGED <<step, item, position, sess, nopen, logfile, log, xs, ys, values, value,
                   hist, calls, remainder, failedAt, error, motions, fitArg, fitOut>>

\* lines 230-238: the log directory is missing; ask, and return
DStartPrompt ==
    /\ kind = "discrete" /\ pc = "start" /\ logDir = "missing"
    /\ prompts' = prompts + 1
    /\ \E a \in {"y", "n", "other"} :
          /\ answer' = a
          /\ logDir' = IF a = "y" THEN "exists" ELSE logDir
    /\ pc' = "done" /\ outcome' = "returned"
    /\ UNCHANGED <<algVars, kind, runstate, scan, actionKind, axisVars>>
    /\ UNCHANGED <<step, item, position, sess, nopen, logfile, log, xs, ys, values, value,
                   hist, calls, remainder, failedAt, error, motions, fitArg, fitOut>>

\* lines 200, 452 and 659: the with statement enters the Detector's session
EnterSession ==
    /\ pc = "enter"
    /\ sess' = "open" /\ nopen' = nopen + 1
    /\ pc' = "iter"
    /\ Keep(<<motions, error, fitOut, prompts, answer, step, item, position, logfile, log, xs, ys, values, value,
              hist, calls, remainder, outcome, failedAt, axisVars>>)

\* an iterator that yields its positions without commanding the axis
NextItem_uncommanded ==
    /\ kind \in {"discrete", "product"} /\ pc = "iter" /\ step < MaxSteps
    /\ LET t == Take(scan, step + 1)
       IN /\ Len(t.items) > step
          /\ ~IsMove(t.items[step + 1])
          /\ item' = t.items[step + 1]
          /\ position' = FirstCoord(t.items[step + 1])
    /\ step' = step + 1
    /\ pc' = "detect"
    /\ Keep(<<motions, error, fitOut, prompts, answer, sess, nopen, logfile, log, xs, ys, values,
              value, hist, calls, remainder, outcome, failedAt, axisVars>>)

\* for x in self: the next item (Scan.plot, ProductScan.plot); the generator
\* runs to its yield, each SimpleScan.__iter__ in it through self.action(i),
\* g.waitfor_move() and the reading self.action()
NextItem ==
    /\ kind \in {"discrete", "product"} /\ pc = "iter" /\ step < MaxSteps
    /\ LET t == Take(scan, step + 1)
       IN /\ Len(t.items) > step
          /\ ~IsMove(t.items[step + 1])
          /\ item' = t.items[step + 1]
          /\ position' = FirstCoord(t.items[step + 1])
    /\ step' = step + 1
    /\ pc' = "detect"
    /\ motions' = motions + Len(Pull(scan, step + 1))
    /\ Keep(<<error, fitOut, prompts, answer, sess, nopen, logfile, log, xs, ys, values, value, hist,
              calls, remainder, outcome, failedAt, axisVars>>)

\* for x in self raises: the iterator itself (merge_dicts), or unpacking
\* x.items() of an item that is a ContinuousMove
IterRaises ==
    /\ kind \in {"discrete", "product"} /\ pc = "iter" /\ step < MaxSteps
    /\ LET t == Take(scan, step + 1)
       IN \/ Len(t.items) <= step /\ t.end = "error"
          \/ Len(t.items) > step /\ IsMove(t.items[step + 1])
    /\ Unwind
    /\ error' = "AttributeError"
    /\ motions' = motions + Len(Pull(scan, step + 1))
    /\ Keep(<<fitOut, prompts, answer, step, item, position, nopen, log, xs, ys, values, value,
              hist, calls, remainder, axisPos, axisTarget, oldSpeed>>)

\* the iterator is exhausted: the with block is left, the session closed; the
\* call of next() that finds it exhausted may have commanded an axis (a zip
\* whose first operand is the longer one)
LoopEnd ==
    /\ pc = "iter" /\ outcome = "running"
    /\ LET t == Take(scan, step + 1)
       IN Len(t.items) <= step /\ t.end = "stop"
    /\ sess' = with_exit(sess)
    /\ logfile' = with_exit(logfile)
    /\ pc' = "save"
    /\ motions' = motions + Len(Pull(scan, step + 1))
    /\ Keep(<<error, fitOut, prompts, answer, step, item, position, nopen, log, xs, ys, values, value,
              hist, calls, remainder, outcome, failedAt, axisVars>>)

\* lines 206-220: acquire, wrap as Average, accumulate, write the log line
DAcquire ==
    /\ kind = "discrete" /\ pc = "detect"
    /\ \E v \in DetValues :
          LET r == find_or_append(xs, ys, position, Average(v))
          IN /\ value' = v
             /\ hist' = Append(hist, [pos |-> position, val |-> v])
             /\ xs' = r.xs
             /\ ys' = r.ys
             /\ log' = (IF xs = <<>> THEN Append(log, HeaderLine(item)) ELSE log)
                       \o <<DataLine(r.xs, r.ys)>>
    /\ pc' = "render"
    /\ Keep(<<motions, error, fitOut, prompts, answer, step, item, position, sess, nopen, logfile, values, calls,
              remainder, outcome, failedAt, axisVars>>)

\* setup_plot and plot_data_with_errors (ProductScan.plot: axis.pcolor)
Render ==
    /\ pc = "render"
    /\ pc' = "action"
    /\ Keep(<<motions, error, fitOut, prompts, answer, step, item, position, sess, nopen, logfile, log, xs, ys,
              values, value, hist, calls, remainder, outcome, failedAt, axisVars>>)

\* lines 224-225 and 483-484: action(xs, ys, plot_functions, action_remainder)
Act ==
    /\ kind \in {"discrete", "continuous"} /\ pc = "action"
    /\ IF actionKind = "none"
       THEN UNCHANGED <<calls, remainder>>
       ELSE /\ calls' = Append(calls, [got |-> remainder, ret |-> Len(calls) + 1])
            /\ remainder' = Len(calls) + 1
    /\ pc' = "draw"
    /\ Keep(<<motions, error, fitOut, prompts, answer, step, item, position, sess, nopen, logfile, log, xs, ys,
              values, value, hist, outcome, failedAt, axisVars>>)

\* plot_functions.draw() / plt.draw(), the end of the loop body
Draw ==
    /\ pc = "draw"
    /\ pc' = CASE kind = "continuous" -> "c_sleep"
                [] kind = "replay" -> "save"
                [] OTHER -> "iter"
    /\ Keep(<<motions, error, fitOut, prompts, answer, step, item, position, sess, nopen, logfile, log, xs, ys,
              values, value, hist, calls, remainder, outcome, failedAt, axisVars>>)

\* plot_functions.save(save), after the with block; return action_remainder
Save ==
    /\ pc = "save"
    /\ pc' = "done" /\ outcome' = "returned"
    /\ Keep(<<motions, error, fitOut, prompts, answer, step, item, position, sess, nopen, logfile, log, xs, ys,
              values, value, hist, calls, remainder, failedAt, axisVars>>)

\* ---- ProductScan.plot ----

\* a plot that never looks at the run state
InRun_unchecked(state) == FALSE

\* line 642: g.get_runstate() != "SETUP"
InRun(state) == state # "SETUP"

\* lines 642-644: the instrument is already in a run
PStartBusy ==
    /\ kind = "product" /\ pc = "start" /\ InRun(runstate)
    /\ Unwind
    /\ error' = "AlreadyInRun"
    /\ Keep(<<motions, fitOut, prompts, answer, step, item, position, nopen, log, xs, ys, values, value,
              hist, calls, remainder, axisPos, axisTarget, oldSpeed>>)

\* lines 653-659: len(self.outer) or len(self.inner) raises, or open raises
\* for want of the directory
PStartRaises ==
    /\ kind = "product" /\ pc = "start" /\ ~InRun(runstate)
    /\ \/ ScanLen(scan.outer) = LenError
       \/ ScanLen(scan.inner) = LenError
       \/ logDir = "missing"
    /\ Unwind
    /\ error' = IF ScanLen(scan.outer) = LenError \/ ScanLen(scan.inner) = LenError
                 THEN "InfiniteLength" ELSE "FileNotFoundError"
    /\ Keep(<<motions, fitOut, prompts, answer, step, item, position, nopen, log, xs, ys, values, value,
              hist, calls, remainder, axisPos, axisTarget, oldSpeed>>)

\* lines 646-658: the grid of nan, the log file
PStart ==
    /\ kind = "product" /\ pc = "start" /\ ~InRun(runstate)
    /\ ScanLen(scan.outer) # LenError /\ ScanLen(scan.inner) # LenError
    /\ logDir = "exists"
    /\ values' = [i \in 1..ScanLen(scan.outer) |-> [j \in 1..ScanLen(scan.inner) |-> NaN]]
    /\ logfile' = "open" /\ log' = <<>>
    /\ pc' = "enter"
    /\ Keep(<<motions, error, fitOut, prompts, answer, step, item, position, sess, nopen, xs, ys, value, hist, calls,
              remainder, outcome, failedAt, axisVars>>)

\* a plot that appends the coordinate of every step
SeenAppend_every_step(s, e) == Append(s, e)

\* xs / ys of ProductScan.plot after this step: first-seen coordinates
SeenAppend(s, e) == IF InSeq(s, e) THEN s ELSE Append(s, e)

\* the cell of this step lies in the grid
CellInGrid ==
    /\ Len(item.keys) >= 2
    /\ LET nys == SeenAppend(ys, item.vals[1])
           nxs == SeenAppend(xs, item.vals[2])
       IN /\ IndexOf(nys, item.vals[1]) <= Len(values)
          /\ IndexOf(nxs, item.vals[2]) <= Len(values[IndexOf(nys, item.vals[1])])

\* lines 661-679: acquire, accumulate into the grid, write the log line
PAcquire ==
    /\ kind = "product" /\ pc = "detect"
    /\ CellInGrid
    /\ \E v \in DetValues :
          LET y == item.vals[1]
              x == item.vals[2]
              nys == SeenAppend(ys, y)
              nxs == SeenAppend(xs, x)
              r == IndexOf(nys, y)
              c == IndexOf(nxs, x)
              cell == IF IsMonoid(values[r][c]) THEN Combine(values[r][c], Average(v))
                      ELSE Average(v)
              grid == [values EXCEPT ![r][c] = cell]
          IN /\ value' = v
             /\ hist' = Append(hist, [pos |-> position, val |-> v, at |-> item])
             /\ xs' = nxs
             /\ ys' = nys
             /\ values' = grid
             /\ log' = Append(log, [line |-> "grid", coord |-> nxs[Len(nxs)],
                                    row |-> grid[Len(grid)]])
    /\ pc' = "render"
    /\ Keep(<<motions, error, fitOut, prompts, answer, step, item, position, sess, nopen, logfile, calls,
              remainder, outcome, failedAt, axisVars>>)

\* lines 661-677: x[keys[1]] or the grid index raises, after the acquisition
PAcquireRaises ==
    /\ kind = "product" /\ pc = "detect"
    /\ ~CellInGrid
    /\ \E v \in DetValues :
          /\ value' = v
          /\ hist' = Append(hist, [pos |-> position, val |-> v, at |-> item])
    /\ Unwind
    /\ error' = "IndexError"
    /\ Keep(<<motions, fitOut, prompts, answer, step, item, position, nopen, log, xs, ys, values,
              calls, remainder, axisPos, axisTarget, oldSpeed>>)

\* lines 698-700: action(xs, values, axis), the remainder is not passed; an
\* action that declares a default for it sees the default
PAct ==
    /\ kind = "product" /\ pc = "action" /\ actionKind # "four"
    /\ IF actionKind = "none"
       THEN UNCHANGED <<calls, remainder>>
       ELSE /\ calls' = Append(calls, [got |-> None, ret |-> Len(calls) + 1])
            /\ remainder' = Len(calls) + 1
    /\ pc' = "draw"
    /\ Keep(<<motions, error, fitOut, prompts, answer, step, item, position, sess, nopen, logfile, log, xs, ys,
              values, value, hist, outcome, failedAt, axisVars>>)

\* lines 698-700: an action of four parameters called with three raises
PActRaises ==
    /\ kind = "product" /\ pc = "action" /\ actionKind = "four"
    /\ Unwind
    /\ error' = "TypeError"
    /\ Keep(<<motions, fitOut, prompts, answer, step, item, position, nopen, log, xs, ys, values, value,
              hist, calls, remainder, axisPos, axisTarget, oldSpeed>>)

\* ---- ContinuousScan.plot ----

\* lines 451-452: open raises for want of the directory
CStartRaises ==
    /\ kind = "continuous" /\ pc = "start" /\ logDir = "missing"
    /\ Unwind
    /\ error' = "FileNotFoundError"
    /\ Keep(<<motions, fitOut, prompts, answer, step, item, position, nopen, log, xs, ys, values, value,
              hist, calls, remainder, axisPos, axisTarget, oldSpeed>>)

\* line 451: the log file
CStart ==
    /\ kind = "continuous" /\ pc = "start" /\ logDir = "exists"
    /\ logfile' = "open" /\ log' = <<>>
    /\ pc' = "enter"
    /\ Keep(<<motions, error, fitOut, prompts, answer, step, item, position, sess, nopen, xs, ys, values, value, hist, calls,
              remainder, outcome, failedAt, axisVars>>)

\* for move in self
CNext ==
    /\ kind = "continuous" /\ pc = "iter" /\ step < MaxSteps
    /\ LET t == Take(scan, step + 1)
       IN /\ Len(t.items) > step
          /\ item' = t.items[step + 1]
    /\ step' = step + 1
    /\ pc' = "c_start"
    /\ Keep(<<motions, error, fitOut, prompts, answer, position, sess, nopen, logfile, log, xs, ys, values, value,
              hist, calls, remainder, outcome, failedAt, axisVars>>)

\* a test of the start position that lets every position pass
at_start_unchecked(pos, move, tolerance) == TRUE

\* lines 456 and 458-459: not (abs(self.motion() - move.start) >
\* self.motion.tolerance)
at_start(pos, move, tolerance) == ~(Abs(pos - move.start) > tolerance)

\* lines 456-457: drive to move.start unless already there
CStartMove ==
    /\ kind = "continuous" /\ pc = "c_start"
    /\ IF ~at_start(axisPos, item, tol)
       THEN axisTarget' = item.start /\ pc' = "c_poll"
       ELSE axisTarget' = axisTarget /\ pc' = "c_enter"
    /\ motions' = motions + (IF ~at_start(axisPos, item, tol) THEN 1 ELSE 0)
    /\ Keep(<<error, fitOut, prompts, answer, step, item, position, sess, nopen, logfile, log, xs, ys,
              values, value, hist, calls, remainder, outcome, failedAt, axisPos,
              velocity, oldSpeed>>)

\* lines 458-460: the poll ends once the axis is within tolerance of start
CPoll ==
    /\ kind = "continuous" /\ pc = "c_poll"
    /\ at_start(axisPos, item, tol)
    /\ pc' = "c_enter"
    /\ Keep(<<motions, error, fitOut, prompts, answer, step, item, position, sess, nopen, logfile, log, xs, ys,
              values, value, hist, calls, remainder, outcome, failedAt, axisVars>>)

\* lines 462-465: enter temporarily_change_motor_speed, command move.stop
CEnter ==
    /\ kind = "continuous" /\ pc = "c_enter"
    /\ oldSpeed' = velocity
    /\ velocity' = item.speed
    /\ axisTarget' = item.stop
    /\ pc' = "c_while"
    /\ motions' = motions + 1
    /\ Keep(<<error, fitOut, prompts, answer, step, item, position, sess, nopen, logfile, log, xs, ys,
              values, value, hist, calls, remainder, outcome, failedAt, axisPos>>)

\* lines 467-468: the axis is still outside tolerance of stop
CWhile ==
    /\ kind = "continuous" /\ pc = "c_while"
    /\ Abs(axisPos - item.stop) > tol
    /\ Len(xs) < MaxSamples
    /\ pc' = "c_read"
    /\ Keep(<<motions, error, fitOut, prompts, answer, step, item, position, sess, nopen, logfile, log, xs, ys,
              values, value, hist, calls, remainder, outcome, failedAt, axisVars>>)

\* lines 467-468 and 399: the axis is within tolerance of stop; the block of
\* temporarily_change_motor_speed is left
CScopeExit ==
    /\ kind = "continuous" /\ pc = "c_while"
    /\ Abs(axisPos - item.stop) <= tol
    /\ velocity' = restore_speed(velocity, oldSpeed)
    /\ pc' = "iter"
    /\ Keep(<<motions, error, fitOut, prompts, answer, step, item, position, sess, nopen, logfile, log, xs, ys,
              values, value, hist, calls, remainder, outcome, failedAt, axisPos,
              axisTarget, oldSpeed>>)

\* line 470: position = self.motion()
CRead ==
    /\ kind = "continuous" /\ pc = "c_read"
    /\ position' = axisPos
    /\ pc' = "detect"
    /\ Keep(<<motions, error, fitOut, prompts, answer, step, item, sess, nopen, logfile, log, xs, ys,
              values, value, hist, calls, remainder, outcome, failedAt, axisVars>>)

\* an append that adds to the entry of an equal coordinate, as Scan.plot does
append_sample_merged(pxs, pys, pos, val) == find_or_append(pxs, pys, pos, val)

\* lines 474-475: xs.append(position); ys.append(value)
append_sample(pxs, pys, pos, val) ==
    [xs |-> Append(pxs, pos), ys |-> Append(pys, val)]

\* lines 471-478: acquire, wrap as Exact, append, write the log line
CAcquire ==
    /\ kind = "continuous" /\ pc = "detect"
    /\ \E v \in DetValues :
          /\ value' = v
          /\ hist' = Append(hist, [pos |-> position, val |-> v])
          /\ xs' = append_sample(xs, ys, position, Exact(v)).xs
          /\ ys' = append_sample(xs, ys, position, Exact(v)).ys
          /\ log' = Append(log, [line |-> "sample", coord |-> position,
                                 mean |-> MeanOf(Exact(v))])
    /\ pc' = "render"
    /\ Keep(<<motions, error, fitOut, prompts, answer, step, item, position, sess, nopen, logfile, values, calls,
              remainder, outcome, failedAt, axisVars>>)

\* line 494: time.sleep(update_freq)
CSleep ==
    /\ kind = "continuous" /\ pc = "c_sleep"
    /\ pc' = "c_while"
    /\ Keep(<<motions, error, fitOut, prompts, answer, step, item, position, sess, nopen, logfile, log, xs, ys,
              values, value, hist, calls, remainder, outcome, failedAt, axisVars>>)

\* ---- ReplayScan.plot ----

\* line 863: min() of no recorded coordinate raises
RStartRaises ==
    /\ kind = "replay" /\ pc = "start" /\ scan.xs = <<>>
    /\ error' = "ValueError"
    /\ Unwind
    /\ Keep(<<motions, fitOut, prompts, answer, step, item, position, nopen, log, xs, ys,
              values, value, hist, calls, remainder, axisPos, axisTarget, oldSpeed>>)

\* lines 855-864: the recorded coordinates and values are what is plotted
RStart ==
    /\ kind = "replay" /\ pc = "start" /\ scan.xs # <<>>
    /\ xs' = scan.xs /\ ys' = scan.ys
    /\ pc' = "render"
    /\ Keep(<<motions, error, fitOut, prompts, answer, step, item, position, sess, nopen,
              logfile, log, values, value, hist, calls, remainder, outcome, failedAt,
              axisVars>>)

\* lines 866-867: action(xs, ys, plot_functions, None)
RAct ==
    /\ kind = "replay" /\ pc = "action"
    /\ IF actionKind = "none"
       THEN UNCHANGED <<calls, remainder>>
       ELSE /\ calls' = Append(calls, [got |-> None, ret |-> Len(calls) + 1])
            /\ remainder' = Len(calls) + 1
    /\ pc' = "draw"
    /\ Keep(<<motions, error, fitOut, prompts, answer, step, item, position, sess, nopen,
              logfile, log, xs, ys, values, value, hist, outcome, failedAt, axisVars>>)

\* how far the axis can get between two looks at it
AxisAdvances == {3}

\* the axis moves toward its target on its own
AxisMove ==
    /\ kind = "continuous" /\ outcome = "running"
    /\ axisPos # axisTarget
    /\ \E d \in AxisAdvances :
          axisPos' = IF Abs(axisTarget - axisPos) <= d THEN axisTarget
                     ELSE IF axisTarget > axisPos THEN axisPos + d ELSE axisPos - d
    /\ Keep(<<motions, error, fitOut, prompts, answer, step, item, position, sess, nopen, logfile, log, xs, ys,
              values, value, hist, calls, remainder, outcome, failedAt, pc,
              axisTarget, velocity, oldSpeed>>)

\* ---- Scan.fit ----

\* a fit that hands on whatever plot returned
fit_result_unchecked(result) == "result"

\* lines 269-281: no result from plot is an error, else the readable fit
fit_result(result) == IF result = None THEN "RuntimeError" ELSE "result"

\* lines 263-265: the argument is not a Fit
FitRejects ==
    /\ pc = "fit" /\ fitArg # "Fit"
    /\ fitOut' = "TypeError"
    /\ pc' = "done"
    /\ Keep(<<motions, error, prompts, answer, step, item, position, sess, nopen, logfile,
              log, xs, ys, values, value, hist, calls, remainder, outcome, failedAt,
              axisVars>>)

\* line 267: self.plot(action=fit.fit_plot_action(), **kwargs)
FitPlots ==
    /\ pc = "fit" /\ fitArg = "Fit"
    /\ pc' = "start" /\ outcome' = "running"
    /\ Keep(<<motions, error, fitOut, prompts, answer, step, item, position, sess, nopen,
              logfile, log, xs, ys, values, value, hist, calls, remainder, failedAt,
              axisVars>>)

\* lines 269-281: plot has returned
FitEnds ==
    /\ fitArg = "Fit" /\ outcome = "returned" /\ fitOut = "none"
    /\ fitOut' = fit_result(remainder)
    /\ Keep(<<motions, error, prompts, answer, step, item, position, sess, nopen, logfile,
              log, xs, ys, values, value, hist, calls, remainder, outcome, failedAt, pc,
              axisVars>>)

\* ---- a run ----

DiscreteScans ==
    { SimpleScan(theta, <<>>),
      SimpleScan(theta, <<0, 1>>),
      AndBack(SimpleScan(theta, <<0, 1>>)),
      Forever(SimpleScan(theta, <<0, 1>>)),
      And(SimpleScan(theta, <<0, 1, 2>>), SimpleScan(phi, <<5, 6>>)),
      Add(SimpleScan(theta, <<0>>), ContinuousScan(<<ContinuousMove(0, 6, 2)>>)) }

ProductScans ==
    { Mul(SimpleScan(theta, <<0, 1>>), SimpleScan(phi, <<5, 6, 7>>)),
      Mul(SimpleScan(theta, <<0, 1>>), SimpleScan(theta, <<0, 1>>)),
      Mul(Forever(SimpleScan(theta, <<0, 1>>)), SimpleScan(phi, <<5, 6>>)),
      Mul(SimpleScan(theta, <<0>>), ContinuousScan(<<ContinuousMove(0, 6, 2)>>)) }

ReplayScans ==
    { ReplayScan(<<>>, <<>>, theta),
      ReplayScan(<<0, 1>>, <<Average(10), Average(11)>>, theta),
      ReplayScan(<<0, 1, 2>>, <<Average(10)>>, theta) }

\* every method resolved on Scan: a ReplayScan run by the plot it inherits
PlotOf_inherited(s) == "discrete"

\* which plot runs for a scan: ProductScan, ContinuousScan and ReplayScan
\* override Scan.plot
PlotOf(s) ==
    CASE s.kind = "ProductScan" -> "product"
      [] IsContinuous(s) -> "continuous"
      [] s.kind = "ReplayScan" -> "replay"
      [] OTHER -> "discrete"

ContinuousScans ==
    { ContinuousScan(<<ContinuousMove(0, 6, 2)>>),
      ContinuousScan(<<ContinuousMove(0, 6, 2), ContinuousMove(6, 0, 3)>>),
      Forever(ContinuousScan(<<ContinuousMove(6, 0, 3)>>)) }

\* plot is called: the locals of lines 185-189, nothing opened yet
Init ==
    /\ cur = NoScan /\ res = Call("none", NoScan, NoScan, NoScan) /\ motionTol = 0
    /\ scan \in DiscreteScans \cup ProductScans \cup ContinuousScans \cup ReplayScans
    /\ kind = PlotOf(scan)
    /\ logDir \in {"exists", "missing"}
    /\ runstate \in IF kind = "product" THEN {"SETUP", "RUNNING"} ELSE {"SETUP"}
    /\ fitArg \in {"none", "Fit", "other"}
    /\ actionKind \in CASE fitArg = "none" -> {"none", "four", "default"}
                       [] fitArg = "Fit" -> {"four", "default"}
                       [] fitArg = "other" -> {"none"}
    /\ prompts = 0 /\ answer = "none"
    /\ pc = (IF fitArg = "none" THEN "start" ELSE "fit")
    /\ outcome = (IF fitArg = "none" THEN "running" ELSE "unstarted")
    /\ step = 0 /\ item = NoScan /\ position = 0
    /\ sess = "unopened" /\ nopen = 0 /\ logfile = "unopened" /\ log = <<>>
    /\ xs = <<>> /\ ys = <<>> /\ values = <<>> /\ value = 0 /\ hist = <<>>
    /\ calls = <<>> /\ remainder = None /\ failedAt = "none"
    /\ error = "none" /\ motions = 0 /\ fitOut = "none"
    /\ axisPos \in IF kind = "continuous" THEN {0, 6} ELSE {0}
    /\ axisTarget = axisPos
    /\ v0 \in IF kind = "continuous" THEN {1, 2} ELSE {0}
    /\ velocity = v0 /\ oldSpeed = 0
    /\ tol = IF kind = "continuous" THEN 1 ELSE 0

Next ==
    \/ Raise
    \/ DStartOpen \/ DStartPrompt \/ EnterSession \/ NextItem \/ IterRaises \/ LoopEnd
    \/ DAcquire \/ Render \/ Act \/ Draw \/ Save
    \/ PStartBusy \/ PStartRaises \/ PStart \/ PAcquire \/ PAcquireRaises
    \/ PAct \/ PActRaises
    \/ CStartRaises \/ CStart \/ CNext \/ CStartMove \/ CPoll \/ CEnter
    \/ CWhile \/ CScopeExit \/ CRead \/ CAcquire \/ CSleep \/ AxisMove
    \/ RStartRaises \/ RStart \/ RAct
    \/ FitRejects \/ FitPlots \/ FitEnds

Spec == Init /\ [][Next]_vars

-----------------------------------------------------------------------------
(* Properties of the execution engine, checked under Spec *)

Ended == outcome \in {"returned", "raised"}

\* C1: in every engine run the Detector's scoped session is opened at most
\* once, and once the run has returned or raised a session that was opened
\* has been closed, whichever step failed.
C1_SessionOpenedOnceAndClosed ==
    /\ nopen <= 1
    /\ sess = "unopened" <=> nopen = 0
    /\ Ended => (sess # "open" /\ (nopen = 1 => sess = "closed"))

\* a run in which the Detector call failed at a later step, session closed
C1_Witness ==
    /\ outcome = "raised" /\ failedAt = "detect" /\ Len(hist) >= 1
    /\ nopen = 1 /\ sess = "closed"

\* C2: when a continuous run ends, however it ends, the axis velocity is the
\* one it had before the run; the velocity is move.speed inside the block
\* that starts with the stop command of a move and ends with its sampling
\* loop, and is the velocity from before the run everywhere else.
C2_SpeedRestored ==
    kind = "continuous" =>
        /\ Ended => velocity = v0
        /\ InSpeedScope => velocity = item.speed
        /\ ~InSpeedScope => velocity = v0

\* a continuous run interrupted while it slept in the sampling loop of a
\* move whose speed differs from the velocity before the run
C2_Witness ==
    /\ kind = "continuous" /\ outcome = "raised" /\ failedAt = "c_sleep"
    /\ item.speed # v0 /\ velocity = v0

\* the positions of a history in order of first visit
RECURSIVE FirstSeen(_)
FirstSeen(h) ==
    IF h = <<>> THEN <<>>
    ELSE LET before == FirstSeen(SubSeq(h, 1, Len(h) - 1))
             p == h[Len(h)].pos
         IN IF InSeq(before, p) THEN before ELSE Append(before, p)

\* the count, sum and sum of squares of the values acquired at p
RECURSIVE SamplesAt(_, _)
SamplesAt(h, p) ==
    IF h = <<>> THEN [count |-> 0, total |-> 0, sq |-> 0]
    ELSE LET before == SamplesAt(SubSeq(h, 1, Len(h) - 1), p)
             v == h[Len(h)].val
         IN IF h[Len(h)].pos = p
            THEN [count |-> before.count + 1, total |-> before.total + v,
                  sq |-> before.sq + v * v]
            ELSE before

C4_LogLineOfVisitedPosition ==
    (kind = "discrete" /\ hist # <<>>) =>
        LET p == hist[Len(hist)].pos
            written == log[Len(log)]
            entry == SamplesAt(hist, p)
        IN /\ written.line = "data"
           /\ written.coord = p
           /\ written.mean = MeanOf(entry)
           /\ written.err = ErrOf(entry)

\* C5: on every plot that iterates steps (discrete, Product, Continuous) a
\* supplied action is invoked once per step with the remainder its previous
\* invocation returned (None at the first step), and the run returns the
\* remainder of the last invocation, None without an action.
C5_ActionThreadsRemainder ==
    kind \in {"discrete", "product", "continuous"} =>
        /\ \A i \in 1..Len(calls) :
              calls[i].got = IF i = 1 THEN None ELSE calls[i - 1].ret
        /\ (actionKind # "none" /\ (pc = "draw" \/ outcome = "returned"))
              => Len(calls) = Len(hist)
        /\ outcome = "returned" =>
              remainder = IF calls = <<>> THEN None ELSE calls[Len(calls)].ret
        /\ actionKind = "none" => (calls = <<>> /\ remainder = None)

\* C11: a Product run started while the run state is not SETUP fails before
\* any axis is commanded, before the Detector session is opened, before any
\* acquisition and before the log file is created or truncated.
C11_BusyProductFailsFast ==
    (kind = "product" /\ runstate # "SETUP") =>
        /\ motions = 0
        /\ nopen = 0 /\ sess = "unopened"
        /\ hist = <<>>
        /\ logfile = "unopened" /\ log = <<>>
        /\ Ended => outcome = "raised"

\* a Product run refused because the instrument was already in a run
C11_Witness ==
    /\ kind = "product" /\ runstate = "RUNNING"
    /\ outcome = "raised" /\ error = "AlreadyInRun" /\ failedAt = "start"

\* the log directory was missing when the run started (only an answer of
\* "y" to the prompt changes it)
DirWasMissing == logDir = "missing" \/ prompts > 0

\* C12: when the log directory is missing at the start of a run, on every
\* plot (discrete, Product, Continuous) the operator is asked exactly once,
\* and no axis is commanded and nothing is acquired before the answer.
C12_MissingDirectoryPrompts ==
    (DirWasMissing /\ kind \in {"discrete", "product", "continuous"}) =>
        /\ prompts <= 1
        /\ answer = "none" => (motions = 0 /\ hist = <<>>)
        /\ (Ended /\ error \notin {"Exception", "AlreadyInRun", "InfiniteLength"})
              => prompts = 1

\* the coordinates a finite scan of one axis yields, in order
Coords(s) == [i \in 1..Len(Items(s).items) |-> FirstCoord(Items(s).items[i])]

Distinct(q) == \A i, j \in 1..Len(q) : q[i] = q[j] => i = j

\* a finite scan whose items are positions of one axis, all distinct
OneAxis(s) ==
    /\ ScanLen(s) # LenError
    /\ Items(s).end = "stop"
    /\ \A i \in 1..Len(Items(s).items) :
          /\ ~IsMove(Items(s).items[i])
          /\ Items(s).items[i].keys = Items(s).items[1].keys
    /\ Distinct(Coords(s))

\* a Product run of an outer and an inner scan of two different axes
GridRun ==
    /\ kind = "product"
    /\ OneAxis(scan.outer) /\ OneAxis(scan.inner)
    /\ Len(Coords(scan.outer)) >= 1 /\ Len(Coords(scan.inner)) >= 1
    /\ Items(scan.outer).items[1].keys # Items(scan.inner).items[1].keys

\* C13: a Product run of an outer scan of M distinct coordinates and an inner
\* scan of N distinct coordinates visits the pairs in outer-major order, each
\* at most once and, when it completes, each exactly once; the grid is
\* M x N, the cell of row r and column c holds exactly the one measurement
\* taken at (outer_r, inner_c) and is empty until then, and the rows and
\* columns are indexed by first-seen outer and inner coordinate.
C13_ProductGrid ==
    GridRun =>
        LET outerCs == Coords(scan.outer)
            innerCs == Coords(scan.inner)
            M == Len(outerCs)
            N == Len(innerCs)
        IN /\ Len(hist) <= M * N
           /\ \A k \in 1..Len(hist) :
                 hist[k].at.vals = <<outerCs[((k - 1) \div N) + 1], innerCs[((k - 1) % N) + 1]>>
           /\ outcome = "returned" => Len(hist) = M * N
           /\ ys = SubSeq(outerCs, 1, (Len(hist) + N - 1) \div N)
           /\ xs = SubSeq(innerCs, 1, Min2(N, Len(hist)))
           /\ values # <<>> =>
                 /\ Len(values) = M
                 /\ \A r \in 1..M :
                       /\ Len(values[r]) = N
                       /\ \A c \in 1..N :
                             values[r][c] = IF (r - 1) * N + c <= Len(hist)
                                            THEN Average(hist[(r - 1) * N + c].val)
                                            ELSE NaN

\* a completed Product run over a grid that is not square
C13_Witness ==
    /\ GridRun /\ outcome = "returned"
    /\ Len(values) = 2 /\ Len(values[1]) = 3 /\ Len(hist) = 6
    /\ \A r \in 1..2 : \A c \in 1..3 : IsMonoid(values[r][c])

\* C16: in a discrete or Product run that has visited at least one
\* position, the log file is one header line followed by one line of three
\* fields (coordinate, accumulated value, uncertainty) per step.
C16_LogHeaderThenLines ==
    (kind \in {"discrete", "product"} /\ xs # <<>>) =>
        /\ Len(log) = Len(hist) + 1
        /\ log[1].line = "header"
        /\ \A i \in 2..Len(log) :
              /\ log[i].line = "data"
              /\ DOMAIN log[i] = {"line", "coord", "mean", "err"}

\* C18: a run of a Replay scan never enters a Detector session, never calls
\* the Detector and never commands an axis, whatever was recorded and with
\* or without an action.
C18_ReplayNoDetector ==
    scan.kind = "ReplayScan" =>
        /\ sess = "unopened" /\ nopen = 0
        /\ hist = <<>>
        /\ motions = 0

\* a replay of two recorded points with an action, run to its end
C18_Witness ==
    /\ scan.kind = "ReplayScan" /\ outcome = "returned"
    /\ Len(xs) = 2 /\ Len(calls) = 1

\* C19: fit called with something that is not a Fit fails before plot is
\* started (no motion, no acquisition, no log file); called with a Fit, it
\* fails with an error whenever plot returned no remainder and never
\* returns a fit result then.
C19_FitFailsWithoutResult ==
    /\ fitArg = "other" =>
          /\ pc \in {"fit", "done"} /\ outcome = "unstarted"
          /\ motions = 0 /\ hist = <<>> /\ nopen = 0
          /\ logfile = "unopened" /\ log = <<>>
          /\ pc = "done" => fitOut = "TypeError"
    /\ fitArg = "Fit" =>
          /\ fitOut \in {"none", "RuntimeError", "result"}
          /\ fitOut # "none" => outcome = "returned"
          /\ fitOut = "RuntimeError" <=> (fitOut # "none" /\ remainder = None)
          /\ fitOut = "result" => (remainder # None /\ calls # <<>>)

\* a fit over a scan of no position: plot returned None, fit raised
C19_Witness ==
    /\ fitArg = "Fit" /\ scan = SimpleScan(theta, <<>>) /\ logDir = "exists"
    /\ outcome = "returned" /\ hist = <<>> /\ fitOut = "RuntimeError"

-----------------------------------------------------------------------------
(* Properties of the scan algebra, checked under AlgSpec *)

\* a finite scan built from Simple scans with +, * and &
RECURSIVE SimpleBuilt(_)
SimpleBuilt(s) ==
    CASE s.kind = "SimpleScan" -> TRUE
      [] s.kind \in {"SumScan", "ParallelScan"} -> SimpleBuilt(s.first) /\ SimpleBuilt(s.second)
      [] s.kind = "ProductScan" -> SimpleBuilt(s.outer) /\ SimpleBuilt(s.inner)
      [] OTHER -> FALSE

IsFinite(s) == IsScan(s) /\ ScanLen(s) # LenError

\* C6: for every finite scan s built from Simple scans with +, * and &,
\* s.reverse yields exactly the positions of s in the opposite order, also
\* for a & b with len(a) # len(b).
C6_ReverseOppositeOrder ==
    (res.op = "reverse" /\ SimpleBuilt(res.left)) =>
        /\ IsScan(res.out)
        /\ Items(res.out).items = Rev(Items(res.left).items)

\* C7: for all finite scans a and b, len(a+b) = len(a)+len(b),
\* len(a*b) = len(a)*len(b), len(a&b) = min(len(a), len(b)), and the
\* reported length is the number of items the composite yields when iterated.
C7_LengthLaws ==
    (res.op \in {"add", "mul", "and"} /\ IsScan(res.out)
        /\ IsFinite(res.left) /\ IsFinite(res.right)) =>
        /\ ScanLen(res.out) =
              CASE res.op = "add" -> ScanLen(res.left) + ScanLen(res.right)
                [] res.op = "mul" -> ScanLen(res.left) * ScanLen(res.right)
                [] res.op = "and" -> Min2(ScanLen(res.left), ScanLen(res.right))
        /\ Len(Items(res.out).items) = ScanLen(res.out)

\* C8: constructing a Continuous scan fails whenever one of its moves has
\* |start - stop| <= motion.tolerance, so every Continuous scan that exists
\* holds only moves whose endpoints are further apart than motion.tolerance.
C8_MovesExceedMotionTolerance ==
    /\ (res.op = "ContinuousScan"
          /\ \E i \in 1..Len(res.left.moves) :
                Abs(res.left.moves[i].start - res.left.moves[i].stop) <= motionTol)
       => res.out.kind = "ValueError"
    /\ IsContinuous(cur) =>
          \A i \in 1..Len(cur.moves) :
                Abs(cur.moves[i].start - cur.moves[i].stop) > motionTol

\* C9: * and & fail at call time and return no scan whenever an operand,
\* left or right, is a Continuous scan.
C9_ProductParallelOfContinuousFail ==
    (res.op \in {"mul", "and"} /\ (IsContinuous(res.left) \/ IsContinuous(res.right)))
        => res.out.kind = "ValueError"

\* C10: a + b fails at call time when exactly one of a, b is a Continuous
\* scan, in either order; when both are, the result is a Continuous scan
\* whose moves are a's moves followed by b's moves.
C10_AddOfContinuous ==
    res.op = "add" =>
        /\ (IsContinuous(res.left) # IsContinuous(res.right)) => res.out.kind = "ValueError"
        /\ (IsContinuous(res.left) /\ IsContinuous(res.right)) =>
              /\ res.out.kind = "ContinuousScan"
              /\ res.out.moves = res.left.moves \o res.right.moves

\* the items of a sequence in the opposite order, a move being travelled
\* from its stop to its start
Opposite(items) ==
    [i \in 1..Len(items) |->
        LET x == items[Len(items) + 1 - i]
        IN IF IsMove(x) THEN ContinuousMove(x.stop, x.start, x.speed) ELSE x]

\* a finite scan whose iteration ends without raising
Yields(s) == IsFinite(s) /\ Items(s).end = "stop"

\* C15: for finite scans a and b, (a+b).reverse yields the positions of
\* b.reverse followed by those of a.reverse; s.and_back yields the positions
\* of s followed by the same positions in the opposite order, and the
\* reverse of s.and_back yields the same sequence as s.and_back.
C15_SumReverseAndBack ==
    /\ (res.op = "add" /\ IsScan(res.out) /\ Yields(res.left) /\ Yields(res.right)) =>
          /\ IsScan(Reverse(res.out))
          /\ Items(Reverse(res.out)).items =
                Items(Reverse(res.right)).items \o Items(Reverse(res.left)).items
    /\ (res.op = "and_back" /\ Yields(res.left)) =>
          /\ IsScan(res.out)
          /\ Items(res.out).items =
                Items(res.left).items \o Opposite(Items(res.left).items)
          /\ Items(Reverse(res.out)).items = Items(res.out).items

\* C14: iterating s.forever over a finite scan s of n >= 1 positions (or
\* moves) never ends on its own, and for every k the k-th item it yields is
\* the (k mod n)-th item of s.
C14_ForeverCycles ==
    (res.op = "forever" /\ IsScan(res.out)
        /\ Items(res.left).end = "stop" /\ Len(Items(res.left).items) >= 1) =>
        LET items == Items(res.left).items
            n == Len(items)
        IN \A k \in 0..MaxPulls :
              LET t == Take(res.out, k)
              IN /\ Len(t.items) = k
                 /\ t.end = "more"
                 /\ \A i \in 1..k : t.items[i] = items[((i - 1) % n) + 1]

\* forever over a scan of two positions a, b: five pulls give a, b, a, b, a
C14_Witness ==
    /\ res.op = "forever" /\ res.out.kind = "ForeverScan"
    /\ Len(Items(res.left).items) = 2
    /\ LET a == Items(res.left).items[1]
           b == Items(res.left).items[2]
       IN a # b /\ Take(res.out, 5).items = <<a, b, a, b, a>>

\* C17: for a Simple scan s and a function f, s.map(f) is a Simple scan of
\* the same axis with as many positions as s, the i-th of which has the
\* coordinate f(the i-th coordinate of s); s is left as it was.
C17_MapSimple ==
    (res.op = "map" /\ res.left.kind = "SimpleScan") =>
        LET before == Items(res.left).items
            after == Items(res.out).items
        IN /\ res.out.kind = "SimpleScan"
           /\ res.out.name = res.left.name
           /\ Len(after) = Len(before)
           /\ \A i \in 1..Len(before) :
                 /\ after[i].keys = before[i].keys
                 /\ FirstCoord(after[i]) = Apply(res.right.name, FirstCoord(before[i]))
           /\ cur = res.left

\* doubling the scan over 0, 1, 2 gives the scan over 0, 2, 4
C17_Witness ==
    /\ res.op = "map" /\ res.right.name = "double"
    /\ res.left = SimpleScan(theta, <<0, 1, 2>>)
    /\ Coords(res.out) = <<0, 2, 4>>

\* a Forever or ForeverContinuous scan
IsForever(s) == s.kind \in {"ForeverScan", "ForeverContinuousScan"}

Combinators == {"add", "mul", "and", "map", "reverse", "forever", "and_back"}

SimpleInHand ==
    {s \in {cur, res.left, res.right, res.out} : s.kind = "SimpleScan"}

\* C22: for every Simple scan s, s.reverse.reverse yields the same ordered
\* positions as s, and s.reverse has the same length, minimum and maximum as s
C22_ReverseInvolution ==
    \A s \in SimpleInHand :
        /\ Reverse(s).kind = "SimpleScan"
        /\ Items(Reverse(Reverse(s))) = Items(s)
        /\ ScanLen(Reverse(s)) = ScanLen(s)
        /\ SimpleScan_min(Reverse(s)) = SimpleScan_min(s)
        /\ SimpleScan_max(Reverse(s)) = SimpleScan_max(s)

C22_Witness ==
    /\ res.op = "reverse" /\ res.left = SimpleScan(theta, <<0, 1, 2>>)
    /\ res.out.kind = "SimpleScan" /\ res.out # res.left
    /\ Items(Reverse(res.out)) = Items(res.left)
    /\ SimpleScan_min(res.out) = 0 /\ SimpleScan_max(res.out) = 2

-----------------------------------------------------------------------------
(* Properties of estimate, checked under EstSpec *)

Specified(x) == x # Unspecified

\* C23: estimate returns seconds + 60*minutes + 3600*hours whenever a duration
\* is specified (an unspecified part counting 0), otherwise frames/10 when a
\* frame count is specified, otherwise 90*uamps when a charge is specified,
\* and 0 when nothing is; a value specified as 0 is treated as specified.
C23_EstimateBySpecified ==
    res.op = "estimate" =>
        LET k == res.left
            part(x) == IF Specified(x) THEN x ELSE 0
        IN res.out.value =
             IF Specified(k.seconds) \/ Specified(k.minutes) \/ Specified(k.hours)
             THEN part(k.seconds) + 60 * part(k.minutes) + 3600 * part(k.hours)
             ELSE IF Specified(k.frames) THEN k.frames \div 10
             ELSE IF Specified(k.uamps) THEN 90 * k.uamps
             ELSE 0

\* how many of the commands are on one axis
RECURSIVE CountOn(_, _)
CountOn(cmds, axis) ==
    IF cmds = <<>> THEN 0
    ELSE (IF Head(cmds)[1] = axis THEN 1 ELSE 0) + CountOn(Tail(cmds), axis)

\* a & b of two Simple scans of different axes
SimplePair ==
    /\ res.op = "and" /\ IsScan(res.out)
    /\ res.left.kind = "SimpleScan" /\ res.right.kind = "SimpleScan"
    /\ res.left.name # res.right.name

\* C24: iterating a & b commands the axis of a and the axis of b exactly
\* min(len(a), len(b)) times each, whichever operand is the shorter.
C24_ParallelCommandsMin ==
    SimplePair =>
        LET n == Min2(ScanLen(res.left), ScanLen(res.right))
            cmds == AllCommands(res.out)
        IN /\ CountOn(cmds, res.left.name) = n
           /\ CountOn(cmds, res.right.name) = n

-----------------------------------------------------------------------------
(* Properties of the continuous run, checked under Spec *)

\* a sample of the current move has just been recorded and logged
SampleRecorded == kind = "continuous" /\ pc = "render"

\* C25: every sample coordinate recorded and logged for a move lies outside
\* the hardware tolerance of that move's stop, however the axis moves between
\* two reads of its position.
C25_SampleOutsideStopTolerance ==
    SampleRecorded =>
        /\ Abs(xs[Len(xs)] - item.stop) > tol
        /\ Abs(log[Len(log)].coord - item.stop) > tol

-----------------------------------------------------------------------------
(* Defaults, checked under AlgSpec *)

\* C26: the scan a combinator returns carries the Defaults of the scan it was
\* built from (of both, for +, * and &), the capability the engine runs a
\* scan with.
C26_CombinatorsKeepDefaults ==
    (res.op \in Combinators /\ IsScan(res.out)) =>
        /\ DefaultsOf(res.out) = DefaultsOf(res.left)
        /\ res.op \in {"add", "mul", "and"} => DefaultsOf(res.out) = DefaultsOf(res.right)
        /\ DefaultsOf(res.out) = InstrumentDefaults

\* C27: reverse returns a scan for every scan, the Forever and
\* ForeverContinuous ones included, and the reverse of an infinite scan is
\* again an infinite scan that cycles the reversed sequence.
C27_ReverseTotal ==
    res.op = "reverse" =>
        /\ IsScan(res.out)
        /\ IsForever(res.left) => IsForever(res.out)
        /\ res.left.kind = "ForeverScan" =>
              \A n \in 1..3 :
                 Take(res.out, n).items = Take(Forever(Reverse(res.left.scan)), n).items

\* a continuous run of exactly one move
OneMoveRun == kind = "continuous" /\ scan.kind = "ContinuousScan" /\ Len(scan.moves) = 1

\* C28: in a continuous run of one move the recorded coordinates are strictly
\* monotonic, with no position repeated, however the axis progresses between
\* two polls.
C28_SamplesStrictlyMonotonic ==
    OneMoveRun =>
        \/ \A i, j \in 1..Len(xs) : i < j => xs[i] < xs[j]
        \/ \A i, j \in 1..Len(xs) : i < j => xs[i] > xs[j]

\* the engine is bringing the axis to the start of the current move
DrivingToStart == kind = "continuous" /\ pc \in {"c_start", "c_poll"}

\* the step that enters the measuring loop of a move
CommandsStop ==
    kind = "continuous" /\ pc' = "c_while" /\ pc \notin {"c_while", "c_sleep"}

\* C29: for every move the engine changes the speed to move.speed and commands
\* the axis toward stop only after it has observed the axis within tolerance
\* of move.start; it acquires nothing while the axis is driven to start; the
\* moves are taken one at a time, in the order of the list.
C29_MoveProtocol ==
    [][ /\ (kind = "continuous" /\ pc' = "c_enter" /\ pc # "c_enter") =>
              /\ pc \in {"c_start", "c_poll"}
              /\ Abs(axisPos - item.start) <= tol
        /\ CommandsStop =>
              /\ pc = "c_enter"
              /\ velocity' = item.speed /\ axisTarget' = item.stop
        /\ (kind = "continuous" /\ axisTarget' # axisTarget) =>
              pc \in {"c_start", "c_enter"}
        /\ DrivingToStart =>
              /\ hist' = hist /\ xs' = xs /\ ys' = ys /\ log' = log
              /\ velocity' = velocity
        /\ (kind = "continuous" /\ pc' = "c_start" /\ pc # "c_start") =>
              /\ pc = "iter"
              /\ step' = step + 1
              /\ item' = scan.moves[(step % Len(scan.moves)) + 1]
      ]_vars

\* the axis was at 6, was driven to the start 0 of the move and, seen there,
\* is sent to 6 at the speed of the move, nothing acquired yet
C29_Witness ==
    /\ kind = "continuous" /\ pc = "c_while"
    /\ item = ContinuousMove(0, 6, 2) /\ step = 1
    /\ motions = 2 /\ axisTarget = 6 /\ velocity = 2
    /\ Abs(axisPos - 0) <= tol /\ hist = <<>>

-----------------------------------------------------------------------------
(* The discrete run without its log directory, checked under Spec *)

\* C30: a discrete run that finds the log directory missing ends without
\* visiting a position, without opening the Detector's session or acquiring a
\* measurement and without writing a log line, and returns no remainder,
\* whatever the operator answers (y, n or anything else).
C30_MissingDirectoryEndsRun ==
    (kind = "discrete" /\ DirWasMissing) =>
        /\ step = 0 /\ motions = 0 /\ item = NoScan
        /\ sess = "unopened" /\ nopen = 0
        /\ hist = <<>> /\ xs = <<>> /\ ys = <<>>
        /\ logfile = "unopened" /\ log = <<>>
        /\ calls = <<>> /\ remainder = None
        /\ answer \in {"y", "n", "other"} => Ended

\* the operator answered y, the directory was made, and the run has returned
C30_Witness ==
    /\ kind = "discrete" /\ prompts = 1 /\ answer = "y" /\ logDir = "exists"
    /\ outcome = "returned" /\ remainder = None /\ nopen = 0 /\ log = <<>>

-----------------------------------------------------------------------------
(* The order of a discrete step, checked under Spec *)

\* a scan that yields the positions of Simple scans one after the other: a
\* Simple scan, a sum of such scans, or the forever of one
RECURSIVE OverSimple(_)
OverSimple(s) ==
    CASE s.kind = "SimpleScan" -> TRUE
      [] s.kind = "SumScan" -> OverSimple(s.first) /\ OverSimple(s.second)
      [] s.kind = "ForeverScan" -> OverSimple(s.scan)
      [] OTHER -> FALSE

SimpleRun == kind = "discrete" /\ OverSimple(scan)

\* C31: in a discrete run over Simple scans the acquisition of step i follows
\* the command to the i-th value and its wait-for-move, the command of step
\* i+1 follows the acquisition, log line, redraw and action of step i, and
\* each step gives exactly one motion command.
C31_StepOrder ==
    [][ SimpleRun =>
          /\ motions = step /\ motions' = step'
          /\ hist' # hist =>
                /\ pc = "detect" /\ motions = Len(hist) + 1
                /\ position = FirstCoord(Take(scan, motions).items[motions])
                /\ Commands(scan, motions) =
                      [i \in 1..motions |-> <<item.keys[1], FirstCoord(Take(scan, motions).items[i])>>]
                /\ Len(hist') = Len(hist) + 1
                /\ hist'[Len(hist')].pos = position
          /\ motions' # motions =>
                /\ motions' = motions + 1
                /\ pc = "iter" /\ pc' = "detect"
                /\ Len(hist) = motions
                /\ Len(log) = (IF motions = 0 THEN 0 ELSE motions + 1)
                /\ actionKind # "none" => Len(calls) = motions
          /\ (pc' = "iter" /\ pc # "iter") => pc \in {"enter", "draw"}
      ]_vars

\* the second step of a run over theta = 0, 1: the axis has its second
\* command, the first step is acquired and logged
C31_Witness ==
    /\ SimpleRun /\ scan = SimpleScan(theta, <<0, 1>>)
    /\ pc = "detect" /\ step = 2 /\ motions = 2 /\ position = 1
    /\ Len(hist) = 1 /\ Len(log) = 2

-----------------------------------------------------------------------------
(* The record of a continuous run, checked under Spec *)

\* C32: in a continuous run every acquired sample appends one new entry,
\* also at a coordinate recorded before, and writes one log line of two
\* fields (coordinate, value), with no header line; the entries, the log
\* lines and the Detector calls are equal in number.
C32_OneEntryPerSample ==
    kind = "continuous" =>
        /\ Len(xs) = Len(hist) /\ Len(ys) = Len(hist) /\ Len(log) = Len(hist)
        /\ \A i \in 1..Len(hist) :
              /\ xs[i] = hist[i].pos
              /\ ys[i] = Exact(hist[i].val)
              /\ log[i].line = "sample"
              /\ DOMAIN log[i] = {"line", "coord", "mean"}
              /\ log[i].coord = hist[i].pos
              /\ log[i].mean = MeanOf(Exact(hist[i].val))

\* two samples taken at the same coordinate: two entries, two lines
C32_Witness ==
    /\ kind = "continuous" /\ Len(hist) = 2 /\ hist[1].pos = hist[2].pos
    /\ Len(xs) = 2 /\ xs[1] = xs[2] /\ Len(log) = 2

-----------------------------------------------------------------------------
(* Properties of LoqSampleChanger.scan, checked under LoqSpec *)

\* C33: scan rejects a missing centre and a missing or non-positive size or
\* time, and otherwise returns a Continuous scan of exactly 2n moves that
\* alternate centre+size/2 -> centre-size/2 and back at speed size/(time/2),
\* each move starting where the previous one stopped.
C33_LoqScanMoves ==
    res.op = "loq_scan" =>
        LET k == res.left
            n == k.iterations
        IN IF \/ k.centre = <<>>
              \/ k.size = <<>> \/ k.size[1] <= 0
              \/ k.time = <<>> \/ k.time[1] <= 0
           THEN res.out.kind = "TypeError"
           ELSE LET hi == k.centre[1] + k.size[1] \div 2
                    lo == k.centre[1] - k.size[1] \div 2
                    speed == (2 * k.size[1]) \div k.time[1]
                IN /\ res.out.kind = "ContinuousScan"
                   /\ Len(res.out.moves) = 2 * n
                   /\ \A i \in 1..(2 * n) :
                         /\ res.out.moves[i] = IF i % 2 = 1
                                               THEN ContinuousMove(hi, lo, speed)
                                               ELSE ContinuousMove(lo, hi, speed)
                         /\ i > 1 => res.out.moves[i].start = res.out.moves[i - 1].stop

=========================================================================
